---------------------------- MODULE Spec2Model ----------------------------
(***************************************************************************)
(* Model of the function-analysis engine of Function_analyzer:            *)
(*   evaluacion.py  evaluar_punto (stepwise evaluator)                     *)
(*   logica.py      calcular_dominio, calcular_recorrido                   *)
(*                                                                         *)
(* The symbolic library (simplify, subs, limit, latex, continuous_domain,  *)
(* solveset_real, function_range, lambdify) is the environment: each call  *)
(* of it is an input of the action that makes the call, drawn from the     *)
(* outcomes the call can have (a value, or "raise").                       *)
(*                                                                         *)
(* evaluar_punto is run as two calls side by side (Calls), which get the   *)
(* same arguments and the same library outcomes and differ only in the     *)
(* answer of the membership test x0 \in dominio.                           *)
(*                                                                         *)
(* calcular_recorrido is run as two calls side by side too (r and r2),     *)
(* which differ only in puntos_por_intervalo.                              *)
(***************************************************************************)
EXTENDS Integers, Sequences, FiniteSets, TLC

VARIABLES
    op,        \* which API function this behaviour calls
    arg,       \* the arguments of the evaluar_punto call
    c,         \* c[i]: locals and result of evaluar_punto call i
    d,         \* locals and result of the calcular_dominio call
    r,         \* locals and result of the calcular_recorrido call
    r2         \* the same call made again, with the same arguments and the
               \* same library outcomes but for puntos_por_intervalo,
               \* which is not smaller

vars == <<op, arg, c, d, r, r2>>

None == "None"

(***************************************************************************)
(* Values a substitution or a limit can produce, by what the code asks of  *)
(* them: has(zoo/nan/oo/-oo), is_infinite, is_real, is_number.             *)
(*   "1", "sqrt5"  real numbers          "I"  a non-real number            *)
(*   "r"  a real symbol (not a number)   "a"  a symbol of unknown reality  *)
(*   "inf_sym"  is_infinite without containing a sentinel                  *)
(*   "weird"    an object whose has() raises                               *)
(***************************************************************************)
Sentinels == {"zoo", "nan", "oo", "-oo"}

GoodValues == {"1", "sqrt5", "I", "r", "a", "weird"}

BadSubs == {"nan", "zoo", "inf_sym"}

Values == GoodValues \cup Sentinels \cup {"inf_sym"}

HasRaises(v) == v = "weird"

is_infinite(v) == v \in {"zoo", "oo", "-oo", "inf_sym"}

\* three-valued: "T", "F", "N" (Python True / False / None)
is_real(v) ==
    CASE v \in {"1", "sqrt5", "r", "oo", "-oo"} -> "T"
      [] v \in {"I", "zoo"}                     -> "F"
      [] OTHER                                  -> "N"

is_number(v) == v \in {"1", "sqrt5", "I", "oo", "-oo", "zoo", "nan"}

\* evaluacion.py _is_bad (lines 48-56)
_is_bad(v) ==
    IF HasRaises(v) THEN FALSE
    ELSE IF v = "zoo" \/ v = "nan" \/ v = "oo" \/ v = "-oo" THEN TRUE
    ELSE IF is_infinite(v) THEN TRUE
    ELSE FALSE

(***************************************************************************)
(* logica.py calcular_dominio, as a function of what the library answers   *)
(*                                                                         *)
(* Sets are named by their shape.  ZeroSets are the shapes solveset_real   *)
(* can return for the zeros of the denominator; S.Reals is itself an       *)
(* Interval.                                                               *)
(***************************************************************************)
ZeroSets == {"Reals", "FiniteSet", "Interval", "Union", "EmptySet", "ConditionSet"}

\* isinstance(den_zeros, (FiniteSet, Interval, Union)), line 91
Reconocido(z) == z \in {"FiniteSet", "Interval", "Union", "Reals"}

\* S.Reals - den_zeros
Menos(z) ==
    CASE z = "Reals"     -> "EmptySet"
      [] z = "FiniteSet" -> "Reals_menos_FiniteSet"
      [] z = "Interval"  -> "Reals_menos_Interval"
      [] z = "Union"     -> "Reals_menos_Union"
      [] OTHER           -> "Reals"

\* lines 85-95, after continuous_domain raised: z is what solveset_real
\* returns for the denominator, or "raise" (as_numer_denom, solveset_real or
\* the set difference raises).  ExclusionSinTry is the
\* stage without its try: the exception gets out of calcular_dominio.
ExclusionSinTry(z) ==
    IF z = "raise" THEN "raised"
    ELSE IF z = "Reals" THEN "Reals"
    ELSE IF Reconocido(z) THEN Menos(z)
    ELSE "Reals"

ExclusionDenominador(z) ==
    IF z = "raise" THEN "Reals"
    ELSE IF z = "Reals" THEN "Reals"
    ELSE IF Reconocido(z) THEN Menos(z)
    ELSE "Reals"

\* calcular_dominio as a function of what the library answers
DominioCalculado(cd, z) ==
    IF cd # "raise" THEN cd ELSE ExclusionDenominador(z)

(***************************************************************************)
(* evaluar_punto: arguments and per-call state                             *)
(***************************************************************************)
Calls == {1, 2}

\* ndigits, the default of the keyword argument
ndigits == 8

\* What the library can answer for limit(expr, x, x0).
LimitOutcomes == Values \cup {"raise"}

\* An expression at the point x0, by the two facts the evaluator can observe
\* of it: the result of direct substitution, and the result of limit().
\* Where substitution is defined the limit is never asked for.
Exprs ==
    {[sub |-> v, lim |-> v] : v \in GoodValues}
    \cup {[sub |-> b, lim |-> l] : b \in BadSubs, l \in LimitOutcomes}

Args ==
    [expr : Exprs, dominio : {None, "D_user"},
     usar_limite : BOOLEAN, simplificar_antes : BOOLEAN, solo_reales : BOOLEAN]

NoResult == [exacto |-> None, decimal |-> <<>>, fuera_de_dominio |-> FALSE, error |-> None]

CallInit ==
    [pc |-> "inicio", pasos |-> <<>>, latex_parts |-> {}, dominio |-> None,
     expr_proc |-> [sub |-> None, lim |-> None], mismo |-> TRUE,
     expr_sub |-> None, lim |-> None, expr_simpl |-> None, exacto |-> None,
     res |-> NoResult,
     \* history: the sub-operations that raised in this call, and whether one
     \* of them was a failure of the library itself rather than one the
     \* operand forces (float() of a non-real number)
     fallas |-> {}, azar |-> FALSE,
     \* history: what calcular_dominio returns for the same expression and
     \* variable, the library answering it as it answered this call
     analizador |-> None]

CallIdle == [CallInit EXCEPT !.pc = "idle"]

Paso(tag, texto) == <<tag, texto>>

Tags(pasos) == {pasos[j][1] : j \in 1..Len(pasos)}

\* EvaluacionResultado(exacto, decimal, pasos, latex_parts, fuera_de_dominio)
Retorno(k, exacto, decimal, fuera) ==
    [k EXCEPT !.pc = "fin",
              !.res = [exacto |-> exacto, decimal |-> decimal,
                       fuera_de_dominio |-> fuera, error |-> None]]

Raise(k, nombre, libreria) ==
    [k EXCEPT !.fallas = @ \cup {nombre}, !.azar = @ \/ libreria]

\* the handler "except Exception as e" of lines 178-180; FalloFuera is the
\* handler reporting the failure as out of domain as well
FalloFuera(k) ==
    [k EXCEPT !.pc = "fin",
              !.pasos = Append(@, Paso("err", "")),
              !.res = [exacto |-> None, decimal |-> <<>>,
                       fuera_de_dominio |-> TRUE, error |-> "str(e)"]]

Fallo(k) ==
    [k EXCEPT !.pc = "fin",
              !.pasos = Append(@, Paso("err", "")),
              !.res = [exacto |-> None, decimal |-> <<>>,
                       fuera_de_dominio |-> FALSE, error |-> "str(e)"]]

\* float(N(exacto, ndigits + 2)): the value at ndigits + 2 significant digits
Decimal(v) == <<v, ndigits + 2>>

\* float() of a non-real number raises TypeError
FloatRaises(v) == is_number(v) /\ is_real(v) # "T"

(***************************************************************************)
(* The stages of evaluar_punto, each as the new state of one call.         *)
(***************************************************************************)
\* lines 88-90: o = "raise_str" (symbols() or str(expr) raises),
\* "raise_latex" (latex raises after the step was appended), "ok"
InicioPaso(k, o) ==
    IF o = "raise_str" THEN Fallo(Raise(k, "str", TRUE))
    ELSE LET k1 == [k EXCEPT !.pasos = Append(@, Paso("1", "expr"))]
         IN  IF o = "raise_latex" THEN Fallo(Raise(k1, "latex", TRUE))
             ELSE [k1 EXCEPT !.latex_parts = @ \cup {"expr_original"},
                             !.pc = "dominio"]

ContDomResults == {"Reals", "Reals_sin_x0", "Intervalo"}

\* lines 93-100: dom is what continuous_domain returns, or "raise";
\* l = "raise" when latex(dominio) raises inside the same try.  z is what
\* solveset_real answers for the denominator of the expression; the code
\* does not ask for it here, calcular_dominio does.
DominioPaso(k0, dom, l, z) ==
    LET k == [k0 EXCEPT !.analizador = DominioCalculado(dom, z)]
    IN
    IF arg.dominio # None THEN [k0 EXCEPT !.dominio = arg.dominio, !.pc = "simplif"]
    ELSE IF dom = "raise"
    THEN [Raise(k, "continuous_domain", FALSE) EXCEPT
                   !.dominio = None, !.pasos = Append(@, Paso("2x", "")),
                   !.pc = "simplif"]
    ELSE LET k1 == [k EXCEPT !.dominio = dom, !.pasos = Append(@, Paso("2", dom))]
         IN  IF l = "raise"
             THEN [Raise(k1, "latex", FALSE) EXCEPT
                             !.dominio = None, !.pasos = Append(@, Paso("2x", "")),
                             !.pc = "simplif"]
             ELSE [k1 EXCEPT !.latex_parts = @ \cup {"dominio"}, !.pc = "simplif"]

\* What simplify(expr) can do to the expression: return the same object,
\* return another expression with the same singularity, or one in which the
\* singularity is gone; then its value at x0 is the limit.
SimplifyOutcomes(e) ==
    {"is", "cambia", "raise"}
    \cup (IF _is_bad(e.sub) /\ e.lim \in GoodValues THEN {"quita"} ELSE {})

\* lines 103-109
SimplifPaso(k, o, l) ==
    IF ~arg.simplificar_antes
    THEN LET k1 == [k EXCEPT !.expr_proc = arg.expr, !.mismo = TRUE,
                             !.pasos = Append(@, Paso("3n", ""))]
         IN  IF l = "raise" THEN Fallo(Raise(k1, "latex", TRUE))
             ELSE [k1 EXCEPT !.latex_parts = @ \cup {"simplif_previa"},
                             !.pc = "pertenencia"]
    ELSE IF o = "raise" THEN Fallo(Raise(k, "simplify", TRUE))
    ELSE LET proc == IF o = "quita"
                     THEN [sub |-> arg.expr.lim, lim |-> arg.expr.lim]
                     ELSE arg.expr
             k1 == [k EXCEPT !.expr_proc = proc, !.mismo = (o = "is"),
                             !.pasos = Append(@, IF o = "is" THEN Paso("3n", "")
                                                 ELSE Paso("3s", proc.sub))]
         IN  IF l = "raise" THEN Fallo(Raise(k1, "latex", TRUE))
             ELSE [k1 EXCEPT !.latex_parts = @ \cup {"simplif_previa"},
                             !.pc = "pertenencia"]

\* _esta_en_dominio, lines 59-66: m is the answer of "S(x0) in dominio"
_esta_en_dominio(dominio, m) ==
    IF dominio = None THEN TRUE
    ELSE IF m = "raise" THEN TRUE
    ELSE m = "si"

\* lines 111-116; PertenenciaPasoCorta ends the call when the answer is No
PertenenciaPasoCorta(k, s, m) ==
    IF s = "raise" THEN Fallo(Raise(k, "S", TRUE))
    ELSE LET pertenece == _esta_en_dominio(k.dominio, m)
         IN  IF k.dominio # None
             THEN IF pertenece
                  THEN [k EXCEPT !.pasos = Append(@, Paso("4", "Si")),
                                 !.pc = "sustitucion"]
                  ELSE Retorno([k EXCEPT !.pasos = Append(@, Paso("4", "No"))],
                               None, <<>>, TRUE)
             ELSE [k EXCEPT !.pasos = Append(@, Paso("4x", "")),
                            !.pc = "sustitucion"]

PertenenciaPaso(k, s, m) ==
    IF s = "raise" THEN Fallo(Raise(k, "S", TRUE))
    ELSE LET pertenece == _esta_en_dominio(k.dominio, m)
         IN  IF k.dominio # None
             THEN [k EXCEPT !.pasos = Append(@, Paso("4", IF pertenece THEN "Si" ELSE "No")),
                            !.pc = "sustitucion"]
             ELSE [k EXCEPT !.pasos = Append(@, Paso("4x", "")),
                            !.pc = "sustitucion"]

\* lines 119-121
SustitucionPaso(k, o) ==
    IF o = "raise_subs" THEN Fallo(Raise(k, "subs", TRUE))
    ELSE LET k1 == [k EXCEPT !.expr_sub = k.expr_proc.sub,
                             !.pasos = Append(@, Paso("5", k.expr_proc.sub))]
         IN  IF o = "raise_latex" THEN Fallo(Raise(k1, "latex", TRUE))
             ELSE [k1 EXCEPT !.latex_parts = @ \cup {"sustitucion"},
                             !.pc = "clasificar"]

\* lines 153-159: o is what simplify(expr_sub) does: "igual" (the result
\* compares equal), "cambia" (another form of the same value), "raise";
\* l = "raise" when latex raises
PosteriorPaso(k, o, l) ==
    IF o = "raise" THEN Fallo(Raise(k, "simplify", TRUE))
    ELSE LET k1 == [k EXCEPT !.expr_simpl = k.expr_sub,
                             !.pasos = Append(@, IF o = "cambia"
                                                 THEN Paso("6post", k.expr_sub)
                                                 ELSE Paso("6ya", ""))]
         IN  IF l = "raise" THEN Fallo(Raise(k1, "latex", TRUE))
             ELSE [k1 EXCEPT !.latex_parts = @ \cup {"simplif_posterior"},
                             !.pc = "valor"]

\* lines 124-127, 150 and, for a substitution that is not bad, 153-159;
\* ClasificarPasoSinOpcion tries the limit whatever usar_limite says
ClasificarPasoSinOpcion(k, o, l) ==
    IF _is_bad(k.expr_sub)
    THEN [k EXCEPT !.pasos = Append(@, Paso("6bad", "")), !.pc = "limite"]
    ELSE PosteriorPaso(k, o, l)

ClasificarPaso(k, o, l) ==
    IF _is_bad(k.expr_sub)
    THEN LET k1 == [k EXCEPT !.pasos = Append(@, Paso("6bad", ""))]
         IN  IF arg.usar_limite THEN [k1 EXCEPT !.pc = "limite"]
             ELSE Retorno(k1, None, <<>>, TRUE)
    ELSE PosteriorPaso(k, o, l)

\* the handler "except Exception as e" of lines 146-148
LimiteFallo(k) ==
    Retorno([k EXCEPT !.pasos = Append(@, Paso("7x", ""))], None, <<>>, TRUE)

\* lines 128-131: limit(expr_proc, x, x0S), whose outcome is the expression's;
\* l = "raise" when the latex of line 131 raises
LimitePaso(k, l) ==
    IF k.expr_proc.lim = "raise" THEN LimiteFallo(Raise(k, "limit", FALSE))
    ELSE LET k1 == [k EXCEPT !.lim = k.expr_proc.lim,
                             !.pasos = Append(@, Paso("7lim", k.expr_proc.lim))]
         IN  IF l = "raise" THEN LimiteFallo(Raise(k1, "latex", TRUE))
             ELSE [k1 EXCEPT !.latex_parts = @ \cup {"limite"},
                             !.pc = "tras_limite"]

\* the test of line 132; LimiteAceptableInvertido has the reality test
\* the wrong way round
LimiteAceptableInvertido(lim) ==
    ~_is_bad(lim) /\ (~arg.solo_reales \/ is_real(lim) # "T")

LimiteAceptable(lim) ==
    ~_is_bad(lim) /\ (~arg.solo_reales \/ is_real(lim) = "T")

\* lines 132-145, inside the try of line 128: f is "ok", or the call that
\* raises: "raise_float" (line 134), "raise_latex8" (lines 136-137),
\* "raise_latex9" (line 141)
InterpretarLimitePaso(k, f) ==
    IF LimiteAceptable(k.lim)
    THEN LET k1 == [k EXCEPT !.exacto = k.lim]
         IN  IF is_number(k.lim) /\ (f = "raise_float" \/ FloatRaises(k.lim))
             THEN LimiteFallo(Raise(k1, "float", ~FloatRaises(k.lim)))
             ELSE LET decimal == IF is_number(k.lim) THEN Decimal(k.lim) ELSE <<>>
                      k2 == IF decimal # <<>>
                            THEN [k1 EXCEPT !.pasos = Append(@, Paso("8dlim", k.lim))]
                            ELSE k1
                  IN  IF decimal # <<>> /\ f = "raise_latex8"
                      THEN LimiteFallo(Raise(k2, "latex", TRUE))
                      ELSE LET k3 == [k2 EXCEPT
                                        !.latex_parts = @ \cup (IF decimal # <<>>
                                                                THEN {"decimal"} ELSE {}),
                                        !.pasos = Append(@, Paso("9rem", ""))]
                           IN  IF f = "raise_latex9"
                               THEN LimiteFallo(Raise(k3, "latex", TRUE))
                               ELSE Retorno([k3 EXCEPT !.latex_parts = @ \cup {"exacto"}],
                                            k.lim, decimal, FALSE)
    ELSE Retorno([k EXCEPT !.pasos = Append(@, Paso("7b", ""))], None, <<>>, TRUE)

\* lines 170-176: f is "ok", "raise_float" (line 172) or "raise_latex" (line 174)
DecimalPaso(k, f) ==
    IF is_number(k.exacto)
    THEN IF f = "raise_float" \/ FloatRaises(k.exacto)
         THEN Fallo(Raise(k, "float", ~FloatRaises(k.exacto)))
         ELSE LET k1 == [k EXCEPT !.pasos = Append(@, Paso("8dec", k.exacto))]
              IN  IF f = "raise_latex" THEN Fallo(Raise(k1, "latex", TRUE))
                  ELSE Retorno([k1 EXCEPT !.latex_parts = @ \cup {"decimal"}],
                               k.exacto, Decimal(k.exacto), FALSE)
    ELSE Retorno(k, k.exacto, <<>>, FALSE)

\* lines 161-176: f is "ok", "raise_latex7" (line 168), or as for DecimalPaso
ValorPaso(k, f) ==
    LET k1 == [k EXCEPT !.exacto = k.expr_simpl]
    IN  IF arg.solo_reales /\ is_real(k.expr_simpl) = "F"
        THEN Retorno([k1 EXCEPT !.pasos = Append(@, Paso("7noreal", ""))],
                     None, <<>>, TRUE)
        ELSE LET k2 == [k1 EXCEPT !.pasos = Append(@, Paso("7exacto", k.expr_simpl))]
             IN  IF f = "raise_latex7" THEN Fallo(Raise(k2, "latex", TRUE))
                 ELSE DecimalPaso([k2 EXCEPT !.latex_parts = @ \cup {"exacto"}], f)

(***************************************************************************)
(* Actions of evaluar_punto: both calls take the stage together, with the  *)
(* same library outcomes.                                                  *)
(***************************************************************************)
EnPc(p) == op = "evaluar_punto" /\ \E i \in Calls : c[i].pc = p

OkRaise == {"ok", "raise"}

Inicio ==
    /\ EnPc("inicio")
    /\ \E o \in {"ok", "raise_str", "raise_latex"} :
          c' = [i \in Calls |-> IF c[i].pc = "inicio"
                                THEN InicioPaso(c[i], o) ELSE c[i]]
    /\ UNCHANGED <<op, arg, d, r, r2>>

Dominio ==
    /\ EnPc("dominio")
    /\ \E dom \in ContDomResults \cup {"raise"}, l \in OkRaise,
          z \in ZeroSets \cup {"raise"} :
          c' = [i \in Calls |-> IF c[i].pc = "dominio"
                                THEN DominioPaso(c[i], dom, l, z) ELSE c[i]]
    /\ UNCHANGED <<op, arg, d, r, r2>>

Simplif ==
    /\ EnPc("simplif")
    /\ \E o \in SimplifyOutcomes(arg.expr), l \in OkRaise :
          c' = [i \in Calls |-> IF c[i].pc = "simplif"
                                THEN SimplifPaso(c[i], o, l) ELSE c[i]]
    /\ UNCHANGED <<op, arg, d, r, r2>>

\* the two calls differ here only: m[i] is the answer call i gets
Pertenencia ==
    /\ EnPc("pertenencia")
    /\ \E s \in OkRaise, m \in [Calls -> {"si", "no", "raise"}] :
          c' = [i \in Calls |-> IF c[i].pc = "pertenencia"
                                THEN PertenenciaPaso(c[i], s, m[i]) ELSE c[i]]
    /\ UNCHANGED <<op, arg, d, r, r2>>

Sustitucion ==
    /\ EnPc("sustitucion")
    /\ \E o \in {"ok", "raise_subs", "raise_latex"} :
          c' = [i \in Calls |-> IF c[i].pc = "sustitucion"
                                THEN SustitucionPaso(c[i], o) ELSE c[i]]
    /\ UNCHANGED <<op, arg, d, r, r2>>

Clasificar ==
    /\ EnPc("clasificar")
    /\ \E o \in {"igual", "cambia", "raise"}, l \in OkRaise :
          c' = [i \in Calls |-> IF c[i].pc = "clasificar"
                                THEN ClasificarPaso(c[i], o, l) ELSE c[i]]
    /\ UNCHANGED <<op, arg, d, r, r2>>

Limite ==
    /\ EnPc("limite")
    /\ \E l \in OkRaise :
          c' = [i \in Calls |-> IF c[i].pc = "limite"
                                THEN LimitePaso(c[i], l) ELSE c[i]]
    /\ UNCHANGED <<op, arg, d, r, r2>>

InterpretarLimite ==
    /\ EnPc("tras_limite")
    /\ \E f \in {"ok", "raise_float", "raise_latex8", "raise_latex9"} :
          c' = [i \in Calls |-> IF c[i].pc = "tras_limite"
                                THEN InterpretarLimitePaso(c[i], f) ELSE c[i]]
    /\ UNCHANGED <<op, arg, d, r, r2>>

Valor ==
    /\ EnPc("valor")
    /\ \E f \in {"ok", "raise_latex7", "raise_float", "raise_latex"} :
          c' = [i \in Calls |-> IF c[i].pc = "valor"
                                THEN ValorPaso(c[i], f) ELSE c[i]]
    /\ UNCHANGED <<op, arg, d, r, r2>>

EvaluarPunto ==
    \/ Inicio \/ Dominio \/ Simplif \/ Pertenencia \/ Sustitucion \/ Clasificar
    \/ Limite \/ InterpretarLimite \/ Valor

(***************************************************************************)
(* logica.py calcular_dominio: the call                                     *)
(***************************************************************************)
DomInit == [pc |-> "continuidad", cd |-> None, z |-> None, res |-> None]

DomIdle == [DomInit EXCEPT !.pc = "idle"]

\* lines 80-83
DomContinuidad ==
    /\ op = "calcular_dominio" /\ d.pc = "continuidad"
    /\ \E cd \in ContDomResults \cup {"raise"} :
          d' = IF cd = "raise"
               THEN [d EXCEPT !.cd = cd, !.pc = "denominador"]
               ELSE [d EXCEPT !.cd = cd, !.pc = "fin", !.res = cd]
    /\ UNCHANGED <<op, arg, c, r, r2>>

\* lines 84-95
DomDenominador ==
    /\ op = "calcular_dominio" /\ d.pc = "denominador"
    /\ \E z \in ZeroSets \cup {"raise"} :
          d' = [d EXCEPT !.z = z, !.pc = "fin", !.res = ExclusionDenominador(z)]
    /\ UNCHANGED <<op, arg, c, r, r2>>

CalcularDominio == DomContinuidad \/ DomDenominador

(***************************************************************************)
(* logica.py calcular_recorrido                                            *)
(*                                                                         *)
(* The expression is one of a few numeric behaviours; its values are in    *)
(* fixed point (integers), a sample that is nan or infinite is a value     *)
(* with fin = FALSE.                                                       *)
(***************************************************************************)
Funciones == {"x2", "inv", "sqrt", "cubo", "raro", "nan"}

\* numerator of "inv": inv(x) = Escala / x
Escala == 1000

Finito(v) == [fin |-> TRUE, v |-> v]

NoFinito == [fin |-> FALSE, v |-> 0]

\* expr.as_numer_denom()[1] at x; 1 for an expression with no denominator
Den(fn, x) == IF fn = "inv" THEN x ELSE 1

\* den != 1, line 161
TieneDen(fn) == fn = "inv"

Raiz(x) == CHOOSE k \in 0..x : k * k <= x /\ (k + 1) * (k + 1) > x

\* f(x) as numpy evaluates it: no exception, nan or inf where undefined
F(fn, x) ==
    CASE fn = "x2"   -> Finito(x * x)
      [] fn = "inv"  -> IF x = 0 THEN NoFinito ELSE Finito(Escala \div x)
      [] fn = "sqrt" -> IF x < 0 THEN NoFinito ELSE Finito(Raiz(x))
      [] fn = "cubo" -> Finito(x * x * x)
      [] fn = "raro" -> Finito(x)
      [] OTHER       -> NoFinito

\* f(xs) raises for the whole array (line 173)
BulkRaises(fn) == fn = "raro"

\* f(float(xi)) raises for the single point (line 179)
PointRaises(fn, x) == fn = "raro" /\ x < 0

\* puntos_por_intervalo
MaxPuntos == 6

UmbralChico == 50

umbral_infinito_default == 1000000

\* np.linspace(a, b, n) for n >= 0, as the set of its points
Linspace(a, b, n) ==
    IF n = 0 THEN {}
    ELSE IF n = 1 THEN {a}
    ELSE {a + ((i * (b - a)) \div (n - 1)) : i \in 0..(n - 1)}

\* the grids the model samples: those whose points are integers
Puntos == {n \in -1..MaxPuntos : n <= 1 \/ 10 % (n - 1) = 0}

Min(S) == CHOOSE x \in S : \A y \in S : x <= y

Max(S) == CHOOSE x \in S : \A y \in S : x >= y

\* Interval(a, b); Basura is an element whose endpoints float() rejects
Intv(a, b) == [a |-> a, b |-> b, ok |-> TRUE]

Basura == [a |-> 0, b |-> 0, ok |-> FALSE]

\* muestreo_intervalos: None (dado = FALSE), or a list of intervals
IntervalosDados ==
    {[dado |-> FALSE, lista |-> <<>>]}
    \cup {[dado |-> TRUE, lista |-> l] :
            l \in {<<>>, <<Intv(0, 10)>>, <<Intv(-10, 0), Intv(0, 10)>>,
                   <<Basura>>, <<Intv(0, 10), Basura>>}}

RecArgs ==
    [fn : Funciones, dominio : {None, "Reals", "Intervalo"},
     muestreo_intervalos : IntervalosDados,
     puntos_por_intervalo : Puntos,
     umbral_infinito : {UmbralChico, umbral_infinito_default},
     function_range : BOOLEAN]

Conjunto(kind, left, linf, right, rinf) ==
    [kind |-> kind, left |-> left, linf |-> linf, right |-> right, rinf |-> rinf]

Vacio == Conjunto("EmptySet", 0, FALSE, 0, FALSE)

\* Interval(left, right); sympy returns the point set {a} for Interval(a, a)
Interval(left, linf, right, rinf) ==
    IF ~linf /\ ~rinf /\ left = right
    THEN Conjunto("FiniteSet", left, FALSE, right, FALSE)
    ELSE Conjunto("Interval", left, linf, right, rinf)

NoRango == [conjunto |-> Vacio, metodo |-> None, detalle |-> None]

RecInit(a) ==
    [pc |-> "dominio", in |-> a, dominio |-> None, fr |-> None,
     intervalos |-> <<>>, valores |-> <<>>,
     infinito_pos |-> FALSE, infinito_neg |-> FALSE, res |-> NoRango,
     \* history: for each interval sampled so far, the values that survived
     \* the masking and the filtering (ys after line 187, {} if skipped)
     ys |-> <<>>]

RecIdle == [RecInit(CHOOSE a \in RecArgs : TRUE) EXCEPT !.pc = "idle"]

\* RangoResultado(conjunto, metodo, detalle)
Rango(k, conjunto, metodo, detalle) ==
    [k EXCEPT !.pc = "fin",
              !.res = [conjunto |-> conjunto, metodo |-> metodo, detalle |-> detalle]]

\* lines 126-127: cd and z are what the library answers to calcular_dominio
DominioRec(k, cd, z) ==
    [k EXCEPT !.dominio = IF k.in.dominio = None
                          THEN DominioCalculado(cd, z)
                          ELSE k.in.dominio,
              !.pc = "simbolico"]

RecDominio ==
    /\ op = "calcular_recorrido" /\ (r.pc = "dominio" \/ r2.pc = "dominio")
    /\ \E cd \in ContDomResults \cup {"raise"}, z \in ZeroSets \cup {"raise"} :
          /\ r' = IF r.pc = "dominio" THEN DominioRec(r, cd, z) ELSE r
          /\ r2' = IF r2.pc = "dominio" THEN DominioRec(r2, cd, z) ELSE r2
    /\ UNCHANGED <<op, arg, c, d>>

RangosSimbolicos == {"EmptySet", "Interval", "FiniteSet", "Union"}

\* lines 130-136: fr is what function_range returns, or "raise".
\* SimbolicoSinVacio returns an empty symbolic range too.
SimbolicoSinVacio(k, fr) ==
    IF k.in.function_range /\ fr # "raise"
    THEN Rango([k EXCEPT !.fr = fr], Conjunto(fr, 0, FALSE, 0, FALSE), "simbolico", None)
    ELSE [k EXCEPT !.fr = IF k.in.function_range THEN fr ELSE None,
                   !.pc = "preparar"]

Simbolico(k, fr) ==
    IF k.in.function_range /\ fr # "raise" /\ fr # "EmptySet"
    THEN Rango([k EXCEPT !.fr = fr], Conjunto(fr, 0, FALSE, 0, FALSE), "simbolico", None)
    ELSE [k EXCEPT !.fr = IF k.in.function_range THEN fr ELSE None,
                   !.pc = "preparar"]

RecSimbolico ==
    /\ op = "calcular_recorrido" /\ (r.pc = "simbolico" \/ r2.pc = "simbolico")
    /\ \E fr \in RangosSimbolicos \cup {"raise"} :
          /\ r' = IF r.pc = "simbolico" THEN Simbolico(r, fr) ELSE r
          /\ r2' = IF r2.pc = "simbolico" THEN Simbolico(r2, fr) ELSE r2
    /\ UNCHANGED <<op, arg, c, d>>

\* the handler of lines 209-211
ErrorMuestreo(k) == Rango(k, Vacio, "muestreo", "Error muestreo")

\* lines 140-153: l = "raise" when lambdify raises
PrepararPaso(k, l) ==
    IF l = "raise" THEN ErrorMuestreo(k)
    ELSE [k EXCEPT
            !.intervalos =
                IF ~k.in.muestreo_intervalos.dado
                THEN <<Intv(-10, 10)>>
                     \o (IF k.dominio = "Reals"
                         THEN <<Intv(-100, -10), Intv(10, 100)>> ELSE <<>>)
                ELSE k.in.muestreo_intervalos.lista,
            !.pc = "intervalo"]

RecPreparar ==
    /\ op = "calcular_recorrido" /\ (r.pc = "preparar" \/ r2.pc = "preparar")
    /\ \E l \in OkRaise :
          /\ r' = IF r.pc = "preparar" THEN PrepararPaso(r, l) ELSE r
          /\ r2' = IF r2.pc = "preparar" THEN PrepararPaso(r2, l) ELSE r2
    /\ UNCHANGED <<op, arg, c, d>>

\* lines 157-169: the grid of the interval, without the points where the
\* denominator is (within 1e-9 of) zero; dr: den_f(xs) raises, no mask
Malla(fn, a, b, n, dr) ==
    LET xs == Linspace(a, b, n)
    IN  IF TieneDen(fn) /\ ~dr THEN {x \in xs : Den(fn, x) # 0} ELSE xs

\* lines 172-187: the finite values of f on xs
Muestras(fn, xs) ==
    LET ev == IF BulkRaises(fn) THEN {x \in xs : ~PointRaises(fn, x)} ELSE xs
    IN  {F(fn, x).v : x \in {y \in ev : F(fn, y).fin}}

\* lines 155-194, one turn of the loop for the interval I;
\* IntervaloPasoUltimo assigns the two flags instead of only raising them,
\* so that they tell of the last interval sampled
IntervaloPasoUltimo(k, I, dr) ==
    IF ~I.ok \/ k.in.puntos_por_intervalo < 0 THEN ErrorMuestreo(k)
    ELSE LET xs == Malla(k.in.fn, I.a, I.b, k.in.puntos_por_intervalo, dr)
             ys == Muestras(k.in.fn, xs)
             sig == [k EXCEPT !.intervalos = Tail(@),
                              !.ys = Append(@, IF xs = {} THEN {} ELSE ys)]
         IN  IF xs = {} \/ ys = {} THEN sig
             ELSE [sig EXCEPT
                     !.infinito_pos = \E y \in ys : y > k.in.umbral_infinito,
                     !.infinito_neg = \E y \in ys : y < -k.in.umbral_infinito,
                     !.valores = Append(@, <<Min(ys), Max(ys)>>)]

IntervaloPaso(k, I, dr) ==
    IF ~I.ok \/ k.in.puntos_por_intervalo < 0 THEN ErrorMuestreo(k)
    ELSE LET xs == Malla(k.in.fn, I.a, I.b, k.in.puntos_por_intervalo, dr)
             ys == Muestras(k.in.fn, xs)
             sig == [k EXCEPT !.intervalos = Tail(@),
                              !.ys = Append(@, IF xs = {} THEN {} ELSE ys)]
         IN  IF xs = {} \/ ys = {} THEN sig
             ELSE [sig EXCEPT
                     !.infinito_pos = @ \/ \E y \in ys : y > k.in.umbral_infinito,
                     !.infinito_neg = @ \/ \E y \in ys : y < -k.in.umbral_infinito,
                     !.valores = Append(@, <<Min(ys), Max(ys)>>)]

\* the loop of line 155 has an interval left to sample
EnIntervalo(k) == k.pc = "intervalo" /\ k.intervalos # <<>>

RecIntervalo ==
    /\ op = "calcular_recorrido" /\ (EnIntervalo(r) \/ EnIntervalo(r2))
    /\ \E dr \in BOOLEAN :
          /\ r' = IF EnIntervalo(r)
                  THEN IntervaloPaso(r, Head(r.intervalos), dr) ELSE r
          /\ r2' = IF EnIntervalo(r2)
                   THEN IntervaloPaso(r2, Head(r2.intervalos), dr) ELSE r2
    /\ UNCHANGED <<op, arg, c, d>>

\* lines 196-208
AgregarPaso(k) ==
    IF k.valores = <<>>
    THEN Rango(k, Vacio, "muestreo", "No se pudo muestrear el dominio")
    ELSE LET vmin == Min({k.valores[j][1] : j \in 1..Len(k.valores)})
             vmax == Max({k.valores[j][2] : j \in 1..Len(k.valores)})
         IN  Rango(k, Interval(IF k.infinito_neg THEN 0 ELSE vmin, k.infinito_neg,
                               IF k.infinito_pos THEN 0 ELSE vmax, k.infinito_pos),
                   "muestreo", "muestras=")

\* the loop of line 155 is over
FinIntervalos(k) == k.pc = "intervalo" /\ k.intervalos = <<>>

RecAgregar ==
    /\ op = "calcular_recorrido" /\ (FinIntervalos(r) \/ FinIntervalos(r2))
    /\ r' = (IF FinIntervalos(r) THEN AgregarPaso(r) ELSE r)
    /\ r2' = (IF FinIntervalos(r2) THEN AgregarPaso(r2) ELSE r2)
    /\ UNCHANGED <<op, arg, c, d>>

CalcularRecorrido ==
    \/ RecDominio \/ RecSimbolico \/ RecPreparar \/ RecIntervalo \/ RecAgregar

(***************************************************************************)
(* A behaviour is one call of one of the three functions.                  *)
(***************************************************************************)
Init ==
    \/ /\ op = "evaluar_punto"
       /\ arg \in Args
       /\ c = [i \in Calls |-> CallInit]
       /\ d = DomIdle
       /\ r = RecIdle
       /\ r2 = RecIdle
    \/ /\ op = "calcular_dominio"
       /\ arg = CHOOSE a \in Args : TRUE
       /\ c = [i \in Calls |-> CallIdle]
       /\ d = DomInit
       /\ r = RecIdle
       /\ r2 = RecIdle
    \/ /\ op = "calcular_recorrido"
       /\ arg = CHOOSE a \in Args : TRUE
       /\ c = [i \in Calls |-> CallIdle]
       /\ d = DomIdle
       /\ r \in {RecInit(a) : a \in RecArgs}
       /\ r2 \in {RecInit([r.in EXCEPT !.puntos_por_intervalo = m]) :
                    m \in {p \in Puntos : p >= r.in.puntos_por_intervalo}}

Next == EvaluarPunto \/ CalcularDominio \/ CalcularRecorrido

Spec == Init /\ [][Next]_vars

(***************************************************************************)
(* Properties of evaluar_punto                                             *)
(***************************************************************************)
Fin(k) == k.pc = "fin"

Marcado(k) == "9rem" \in Tags(k.pasos)

SinValor(k) == k.res.exacto = None /\ k.res.decimal = <<>>

\* C1: a returned EvaluacionResultado satisfies exactly one of: exacto is
\* present, fuera_de_dominio is true, error is present.
C1_ExactlyOneOutcome ==
    \A i \in Calls :
        Fin(c[i]) =>
            LET res == c[i].res
                n == (IF res.exacto # None THEN 1 ELSE 0)
                     + (IF res.fuera_de_dominio THEN 1 ELSE 0)
                     + (IF res.error # None THEN 1 ELSE 0)
            IN  n = 1

\* a call that failed after the substitution step was recorded
C1_Witness ==
    /\ Fin(c[1]) /\ c[1].res.error # None /\ "5" \in Tags(c[1].pasos)
    /\ ~c[1].res.fuera_de_dominio

\* C2, as claimed, granting that the library never fails of its own accord:
\* a bad substitution with usar_limite, a limit that is not bad and (not
\* solo_reales, or the limit real) returns fuera_de_dominio = false, no
\* error, exacto = the limit and the removable-discontinuity step.
C2_LimitAdopted ==
    \A i \in Calls :
        LET k == c[i]
        IN  (/\ Fin(k) /\ ~k.azar
             /\ _is_bad(k.expr_sub) /\ arg.usar_limite
             /\ k.lim # None /\ ~_is_bad(k.lim)
             /\ (~arg.solo_reales \/ is_real(k.lim) = "T"))
            => (/\ ~k.res.fuera_de_dominio /\ k.res.error = None
                /\ k.res.exacto = k.lim /\ Marcado(k))

FiniteReal(v) == ~_is_bad(v) /\ is_number(v) /\ is_real(v) = "T"

\* the expression has a removable discontinuity at x0
Removable(e) == _is_bad(e.sub) /\ e.lim \in Values /\ FiniteReal(e.lim)

DefaultOptions ==
    /\ arg.dominio = None /\ arg.usar_limite
    /\ arg.simplificar_antes /\ arg.solo_reales

\* C3, as claimed (the library working): with default options an expression
\* with a removable discontinuity at x0 returns fuera_de_dominio = false,
\* exacto = the limit, its decimal, and a trace with the marker step.
C3_Original ==
    \A i \in Calls :
        LET k == c[i]
        IN  (Fin(k) /\ ~k.azar /\ DefaultOptions /\ Removable(arg.expr))
            => (/\ ~k.res.fuera_de_dominio
                /\ k.res.exacto = arg.expr.lim
                /\ k.res.decimal = Decimal(arg.expr.lim)
                /\ Marcado(k))

\* C3, amended: the value is the limit and the point is in the domain, and
\* the marker step is in the trace exactly when the substitution into the
\* processed (simplified) expression is itself bad.
C3_Amended ==
    \A i \in Calls :
        LET k == c[i]
        IN  (Fin(k) /\ ~k.azar /\ DefaultOptions /\ Removable(arg.expr))
            => (/\ ~k.res.fuera_de_dominio /\ k.res.error = None
                /\ k.res.exacto = arg.expr.lim
                /\ k.res.decimal = Decimal(arg.expr.lim)
                /\ (Marcado(k) <=> _is_bad(k.expr_sub)))

\* the simplification removed the singularity: the value without the marker
C3_Witness ==
    /\ Fin(c[1]) /\ ~c[1].azar /\ DefaultOptions /\ Removable(arg.expr)
    /\ ~c[1].mismo /\ ~_is_bad(c[1].expr_sub)
    /\ c[1].res.exacto = "sqrt5" /\ ~Marcado(c[1])

\* the cases C4 lists for a bad substitution
C4_Listed(k) ==
    \/ ~arg.usar_limite
    \/ k.expr_proc.lim = "raise"
    \/ k.lim # None /\ _is_bad(k.lim)
    \/ k.lim # None /\ arg.solo_reales /\ is_real(k.lim) # "T"

\* C4, as claimed, granting that the library never fails of its own accord:
\* after a bad substitution, fuera_de_dominio = true (with no value and no
\* error) in the listed cases, and in no other.
C4_OutOfDomainCases ==
    \A i \in Calls :
        LET k == c[i]
        IN  (Fin(k) /\ ~k.azar /\ k.expr_sub # None /\ _is_bad(k.expr_sub))
            => (/\ C4_Listed(k) => (/\ k.res.fuera_de_dominio /\ SinValor(k)
                                    /\ k.res.error = None)
                /\ k.res.fuera_de_dominio => C4_Listed(k))

\* C5, as claimed, for the failures the operand forces: a failure of a
\* sub-operation that no fallback handles ends the call with an error
\* result: error present, fuera_de_dominio = false, no value, the trace
\* ending with the failure marker.
C5_FailureIsError ==
    \A i \in Calls :
        LET k == c[i]
        IN  (Fin(k) /\ ~k.azar
             /\ k.fallas \cap {"str", "simplify", "S", "subs", "float"} # {})
            => (/\ k.res.error # None /\ ~k.res.fuera_de_dominio /\ SinValor(k)
                /\ k.pasos[Len(k.pasos)] = Paso("err", ""))

IsPrefix(s, t) == Len(s) <= Len(t) /\ SubSeq(t, 1, Len(s)) = s

\* C6: the trace is append-only and every stage that is reached appends at
\* least one step.
C6_EveryStageAppends ==
    [][\A i \in Calls :
          c[i].pc # c'[i].pc =>
              /\ IsPrefix(c[i].pasos, c'[i].pasos)
              /\ Len(c'[i].pasos) > Len(c[i].pasos)]_vars

\* the states of the pipeline, by the place in the code
Estado(k) ==
    CASE k.pc \in {"inicio", "dominio", "simplif", "pertenencia", "sustitucion"}
                                   -> "Pending"
      [] k.pc \in {"clasificar", "limite", "valor"} -> "Substituted"
      [] k.pc = "tras_limite"      -> "LimitAttempted"
      [] k.pc = "fin" /\ k.res.error # None -> "Errored"
      [] k.pc = "fin" /\ k.res.error = None /\ k.res.fuera_de_dominio -> "OutOfDomain"
      [] OTHER                     -> "Resolved"

Orden(pc) ==
    CASE pc = "inicio" -> 0 [] pc = "dominio" -> 1 [] pc = "simplif" -> 2
      [] pc = "pertenencia" -> 3 [] pc = "sustitucion" -> 4
      [] pc = "clasificar" -> 5 [] pc = "limite" -> 6 [] pc = "valor" -> 6
      [] pc = "tras_limite" -> 7 [] OTHER -> 8

\* the simplification of stage 3 has run (expr_proc is bound)
Simplificado(k) == k.expr_proc.sub # None

\* C7: the pipeline is acyclic and ends in a terminal state, from which no
\* transition is taken; LimitAttempted is entered only from Substituted with
\* a bad substitution and usar_limite; the prior simplification comes before
\* the membership check and the substitution.
C7_StateMachine ==
    /\ [](op = "evaluar_punto" => (\A i \in Calls : Fin(c[i])) \/ ENABLED Next)
    /\ [](\A i \in Calls : c[i].pc \in {"pertenencia", "sustitucion"}
                            => Simplificado(c[i]))
    /\ [][\A i \in Calls :
            /\ Fin(c[i]) => c'[i] = c[i]
            /\ c'[i] # c[i] => Orden(c'[i].pc) > Orden(c[i].pc)
            /\ (Estado(c'[i]) = "LimitAttempted" /\ Estado(c[i]) # "LimitAttempted")
                  => (/\ Estado(c[i]) = "Substituted"
                      /\ _is_bad(c[i].expr_sub) /\ arg.usar_limite)]_vars

\* a call that went through LimitAttempted and ended out of domain
C7_Witness ==
    /\ Fin(c[1]) /\ "7lim" \in Tags(c[1].pasos) /\ "7b" \in Tags(c[1].pasos)
    /\ Estado(c[1]) = "OutOfDomain"

\* the traces agree but for the text of step 4
SameButStep4(s, t) ==
    /\ Len(s) = Len(t)
    /\ \A j \in 1..Len(s) : s[j] = t[j] \/ (s[j][1] = "4" /\ t[j][1] = "4")

C12_DirectValue ==
    \A i \in Calls :
        LET k == c[i]
        IN  (/\ Fin(k) /\ ~k.azar
             /\ k.expr_sub # None /\ ~_is_bad(k.expr_sub) /\ k.expr_simpl # None)
            => IF arg.solo_reales /\ is_real(k.expr_simpl) = "F"
               THEN k.res.fuera_de_dominio /\ SinValor(k) /\ k.res.error = None
               ELSE /\ k.res.exacto = k.expr_simpl
                    /\ ~k.res.fuera_de_dominio /\ k.res.error = None
                    /\ (k.res.decimal # <<>>) <=> is_number(k.res.exacto)

\* the set the membership test of line 112 tests against: with dominio =
\* None every point belongs (_esta_en_dominio), as for all reals
DominioUsado(k) == IF k.dominio = None THEN "Reals" ELSE k.dominio

\* stage 2 (lines 93-100) is over
Resuelto(k) ==
    /\ k.pc \notin {"idle", "inicio", "dominio"}
    /\ "1" \in Tags(k.pasos) /\ "expr_original" \in k.latex_parts

\* C14: a supplied dominio is used unchanged; when none is supplied the
\* domain of the membership test is the one calcular_dominio returns for the
\* same expression and variable, its fallbacks included; either way the
\* resolved domain, or that none could be determined, is recorded as a step.
C14_DomainResolution ==
    \A i \in Calls :
        LET k == c[i]
        IN  Resuelto(k) =>
              /\ arg.dominio # None => k.dominio = arg.dominio
              /\ arg.dominio = None => DominioUsado(k) = k.analizador
              /\ Tags(k.pasos) \cap {"2", "2x"} # {}

(***************************************************************************)
(* Properties of calcular_dominio and calcular_recorrido                   *)
(***************************************************************************)
\* C9, as claimed: calcular_dominio never raises; the result of continuity
\* analysis is returned when it succeeds; when it fails the result is the
\* reals minus the zero set of the denominator whenever that set has a
\* recognized shape (finite set, interval, union), and all reals only when
\* the exclusion stage fails too (raises, or an unrecognized shape).
C9_Original ==
    d.pc = "fin" =>
        /\ d.res # "raised"
        /\ d.cd # "raise" => d.res = d.cd
        /\ (d.cd = "raise" /\ d.z # "raise" /\ Reconocido(d.z)) => d.res = Menos(d.z)
        /\ (d.cd = "raise" /\ d.res = "Reals") => (d.z = "raise" \/ ~Reconocido(d.z))

\* C9, amended: the exclusion is made for a recognized shape other than the
\* whole real line; all reals is returned when the exclusion stage fails or
\* when the zero set is the whole real line.
C9_Amended ==
    d.pc = "fin" =>
        /\ d.res # "raised"
        /\ d.cd # "raise" => d.res = d.cd
        /\ (d.cd = "raise" /\ d.z # "raise" /\ Reconocido(d.z) /\ d.z # "Reals")
              => d.res = Menos(d.z)
        /\ d.cd = "raise" =>
              (d.res = "Reals" <=> (d.z = "raise" \/ ~Reconocido(d.z) \/ d.z = "Reals"))

\* continuity analysis failed and the zeros of the denominator were excluded
C9_Witness ==
    d.pc = "fin" /\ d.cd = "raise" /\ d.z = "FiniteSet"
    /\ d.res = "Reals_menos_FiniteSet"

EsIntervalo(cj) ==
    \/ cj.kind = "Interval"
    \/ cj.kind = "FiniteSet" /\ cj.left = cj.right /\ ~cj.linf /\ ~cj.rinf

PorMuestreo(k) == k.pc = "fin" /\ k.res.metodo = "muestreo"

\* the set big contains the set small: its left endpoint is not greater and
\* its right endpoint is not smaller
Contiene(big, small) ==
    \/ small.kind = "EmptySet"
    \/ /\ big.kind # "EmptySet"
       /\ big.linf \/ (~small.linf /\ big.left <= small.left)
       /\ big.rinf \/ (~small.rinf /\ big.right >= small.right)

\* C11: when calcular_recorrido falls back to sampling with n points per
\* interval and again with m > n points, everything else equal, the interval
\* reported for m contains the interval reported for n.
C11_SamplingMonotone ==
    (/\ PorMuestreo(r) /\ PorMuestreo(r2)
     /\ r.in.puntos_por_intervalo < r2.in.puntos_por_intervalo)
        => Contiene(r2.res.conjunto, r.res.conjunto)

\* the values that survived in the intervals sampled so far
Sobrevivientes(k) == UNION {k.ys[j] : j \in 1..Len(k.ys)}

\* the surviving sets of the intervals that had one
NoVacios(k) == SelectSeq(k.ys, LAMBDA S : S # {})

\* the values of S whose magnitude does not exceed the threshold u
SubUmbral(S, u) == {y \in S : y <= u /\ y >= -u}

\* the flags tell whether a surviving value is beyond the threshold
BanderasFieles(k) ==
    /\ k.infinito_pos <=> \E y \in Sobrevivientes(k) : y > k.in.umbral_infinito
    /\ k.infinito_neg <=> \E y \in Sobrevivientes(k) : y < -k.in.umbral_infinito

\* the interval returned, from the flags and the recorded pairs
ExtremosFieles(k) ==
    (PorMuestreo(k) /\ k.res.detalle # "Error muestreo") =>
        IF k.valores = <<>> THEN k.res.conjunto = Vacio
        ELSE LET cj == k.res.conjunto
                 minima == {k.valores[j][1] : j \in 1..Len(k.valores)}
                 maxima == {k.valores[j][2] : j \in 1..Len(k.valores)}
             IN  /\ cj.kind # "EmptySet"
                 /\ cj.linf <=> k.infinito_neg
                 /\ ~cj.linf => cj.left = Min(minima)
                 /\ cj.rinf <=> k.infinito_pos
                 /\ ~cj.rinf => cj.right = Max(maxima)

\* C13, as claimed: the flags are set iff some surviving value is beyond the
\* threshold on that side; each interval with surviving values records the
\* (min, max) of those whose magnitude does not exceed the threshold, and an
\* interval with none records nothing; the interval returned has an infinite
\* endpoint where the flag is set, else the extreme of the recorded pairs.
C13_Original ==
    op = "calcular_recorrido" =>
        /\ BanderasFieles(r)
        /\ Len(r.valores) = Len(NoVacios(r))
        /\ \A j \in 1..Len(r.valores) :
              LET sub == SubUmbral(NoVacios(r)[j], r.in.umbral_infinito)
              IN  sub # {} => r.valores[j] = <<Min(sub), Max(sub)>>
        /\ ExtremosFieles(r)

\* C13, amended: the pair an interval records is the (min, max) of all its
\* surviving values, those beyond the threshold included.
C13_Amended ==
    op = "calcular_recorrido" =>
        /\ BanderasFieles(r)
        /\ Len(r.valores) = Len(NoVacios(r))
        /\ \A j \in 1..Len(r.valores) :
              LET S == NoVacios(r)[j]
              IN  r.valores[j] = <<Min(S), Max(S)>>
        /\ ExtremosFieles(r)

\* two intervals, the second with no surviving value; the only value found
\* is below the threshold and is the right endpoint returned
C13_Witness ==
    /\ PorMuestreo(r) /\ r.res.detalle # "Error muestreo"
    /\ Len(r.ys) = 2 /\ r.ys[2] = {} /\ Len(r.valores) = 1
    /\ r.res.conjunto.linf /\ ~r.res.conjunto.rinf
    /\ r.res.conjunto.right < -r.in.umbral_infinito

==========================================================================
